---------------------------- MODULE Spec2Model ----------------------------
(***************************************************************************)
(* A model of lkpg-rs: the news scraper (src/src/pipeline.py), its text    *)
(* and date helpers (src/src/utils.py) and the search endpoint             *)
(* (src/src/api.py).                                                       *)
(*                                                                         *)
(* Python strings are sequences of one-character strings, so that regular  *)
(* expression searches, int(), isoformat() and whitespace normalisation    *)
(* are computed character by character.  Python's None is the value None. *)
(* A Python call that may raise is a record [raised, val].                 *)
(***************************************************************************)
EXTENDS Integers, Sequences, FiniteSets, TLC

VARIABLES
    \* normalize_date called on its own
    date_text,   \* the argument
    d_pc,        \* "idle", "call", "returned" or "raised"
    d_out,       \* the value returned
    \* extract_main_items called on its own
    soup,        \* the listing document: its anchors (by name) in document order
    max_items,   \* the cap
    ex_pc,       \* "idle", "call" or "returned"
    ex_out,      \* the loop's locals at return (items, seen_urls, ...)
    \* the Pinecone service and its client library
    ix_exists,   \* the names of the indexes that exist
    ix_ready,    \* those that report ready
    sdk_shape,   \* the shape of the list_indexes response of the installed SDK
    index,       \* the entries of the index INDEX_NAME
    \* ensure_pinecone_index
    e_pc,        \* "idle", "list", "create", "poll", "returned" or "raised"
    e_name,      \* index_name
    e_names,     \* names
    e_intro,     \* how names was obtained (see names_of)
    e_existed,   \* whether index_name existed when list_indexes answered
    e_raised_by, \* the call whose exception ended the call, "" when none
    n_create,    \* create_index calls of this call
    n_describe,  \* describe_index calls of this call
    e_calls,     \* calls made by the driver
    e_prev,      \* the previous call: [name, creates, outcome]
    \* main and what it calls
    m_pc,        \* "idle", "fetch_listing", "detail", "save", "ensure", "embed",
                 \* "upsert", "done" or "raised"
    m_runs,      \* runs started
    keys_ok,     \* OPENAI_API_KEY and PINECONE_API_KEY are set
    listing_failed, \* the listing request of this run failed
    main_items,  \* scrape: main_items
    results,     \* scrape: results; main: articles
    s_fetch,     \* scrape: what each detail request of this run gave
    snapshot,    \* data/news.json
    n_save,      \* snapshot writes of this run
    u_vectors,   \* embed_texts: embeddings
    n_embed,     \* embedding calls of this run
    n_upsert,    \* upsert calls of this run
    upserted,    \* every entry ever passed to Index.upsert
    \* the search endpoint
    search_out   \* the last response: [status, results]

dateVars == <<date_text, d_pc, d_out>>
extractVars == <<soup, max_items, ex_pc, ex_out>>
serviceVars == <<ix_exists, ix_ready, sdk_shape, index>>
ensureVars == <<e_pc, e_name, e_names, e_intro, e_existed, e_raised_by, n_create,
                n_describe, e_calls, e_prev>>
scrapeVars == <<listing_failed, main_items, results, s_fetch>>
mainVars == <<m_pc, m_runs, keys_ok, snapshot, n_save, u_vectors, n_embed, n_upsert,
              upserted>>
vars == <<dateVars, extractVars, serviceVars, ensureVars, scrapeVars, mainVars,
          search_out>>

None == <<"None">>

(***************************************************************************)
(* Characters                                                              *)
(***************************************************************************)
Digits == {"0", "1", "2", "3", "4", "5", "6", "7", "8", "9"}

AsciiLower ==
    {"a", "b", "c", "d", "e", "f", "g", "h", "i", "j", "k", "l", "m",
     "n", "o", "p", "q", "r", "s", "t", "u", "v", "w", "x", "y", "z"}

Whitespace == {" ", "\t", "\n"}

DigitVal(c) ==
    CASE c = "0" -> 0 [] c = "1" -> 1 [] c = "2" -> 2 [] c = "3" -> 3
      [] c = "4" -> 4 [] c = "5" -> 5 [] c = "6" -> 6 [] c = "7" -> 7
      [] c = "8" -> 8 [] c = "9" -> 9

DigitChar(n) ==
    CASE n = 0 -> "0" [] n = 1 -> "1" [] n = 2 -> "2" [] n = 3 -> "3"
      [] n = 4 -> "4" [] n = 5 -> "5" [] n = 6 -> "6" [] n = 7 -> "7"
      [] n = 8 -> "8" [] n = 9 -> "9"

\* str.lower() on the letters the inputs use
LowerChar(c) ==
    CASE c = "A" -> "a" [] c = "D" -> "d" [] c = "M" -> "m" [] c = "N" -> "n"
      [] c = "P" -> "p" [] c = "R" -> "r" [] c = "T" -> "t"
      [] OTHER -> c

lower(s) == [i \in 1..Len(s) |-> LowerChar(s[i])]

CharAt(s, i) == IF i >= 1 /\ i <= Len(s) THEN s[i] ELSE "EOS"

IsDigitAt(s, i) == CharAt(s, i) \in Digits
IsSpaceAt(s, i) == CharAt(s, i) \in Whitespace
IsLetterAt(s, i) == CharAt(s, i) \in AsciiLower

\* s[a:b+1] as Python slices it: positions outside the string are left out
Slice(s, a, b) ==
    LET lo == IF a < 1 THEN 1 ELSE a
        hi == IF b > Len(s) THEN Len(s) ELSE b
    IN  IF lo > hi THEN <<>> ELSE SubSeq(s, lo, hi)

\* int() of a string of ASCII digits
RECURSIVE int_of(_)
int_of(s) ==
    IF Len(s) = 0 THEN 0
    ELSE 10 * int_of(SubSeq(s, 1, Len(s) - 1)) + DigitVal(s[Len(s)])

\* the first position >= i whose character is not in class
RECURSIVE SkipWhile(_, _, _)
SkipWhile(s, i, class) ==
    IF i <= Len(s) /\ s[i] \in class THEN SkipWhile(s, i + 1, class) ELSE i

\* str.strip()
RECURSIVE strip(_)
strip(s) ==
    IF Len(s) = 0 THEN s
    ELSE IF s[1] \in Whitespace THEN strip(Tail(s))
    ELSE IF s[Len(s)] \in Whitespace THEN strip(SubSeq(s, 1, Len(s) - 1))
    ELSE s

\* re.sub(r"\s+", " ", text): every run of whitespace becomes one space
RECURSIVE collapse_ws(_)
collapse_ws(s) ==
    IF Len(s) = 0 THEN s
    ELSE IF s[1] \in Whitespace
         THEN <<" ">> \o collapse_ws(Slice(s, SkipWhile(s, 1, Whitespace), Len(s)))
         ELSE <<s[1]>> \o collapse_ws(Tail(s))

\* " ".join(parts)
RECURSIVE join_sp(_)
join_sp(parts) ==
    IF Len(parts) = 0 THEN <<>>
    ELSE IF Len(parts) = 1 THEN parts[1]
    ELSE parts[1] \o <<" ">> \o join_sp(Tail(parts))

normalize_whitespace(text) == strip(collapse_ws(text))

\* BeautifulSoup(text).get_text(" ") on text that holds no markup: the text
\* nodes are the text itself; a "<" ... ">" span is a tag and is dropped.
RECURSIVE drop_tags(_, _)
drop_tags(s, inTag) ==
    IF Len(s) = 0 THEN s
    ELSE IF inTag
         THEN IF s[1] = ">" THEN <<" ">> \o drop_tags(Tail(s), FALSE)
                            ELSE drop_tags(Tail(s), TRUE)
         ELSE IF s[1] = "<" /\ \E j \in 2..Len(s) : s[j] = ">"
              THEN drop_tags(Tail(s), TRUE)
              ELSE <<s[1]>> \o drop_tags(Tail(s), FALSE)

clean_text(html_or_text) == normalize_whitespace(drop_tags(html_or_text, FALSE))

(***************************************************************************)
(* Dates (utils.py)                                                        *)
(***************************************************************************)
IsLeap(y) == (y % 4 = 0 /\ y % 100 # 0) \/ y % 400 = 0

DaysInMonth(y, m) ==
    IF m = 2 THEN (IF IsLeap(y) THEN 29 ELSE 28)
    ELSE IF m \in {4, 6, 9, 11} THEN 30 ELSE 31

MINYEAR == 1
MAXYEAR == 9999

\* datetime(year, month, day): raises ValueError outside the calendar
datetime_new(y, m, d) ==
    IF y >= MINYEAR /\ y <= MAXYEAR /\ m >= 1 /\ m <= 12
       /\ d >= 1 /\ d <= DaysInMonth(y, m)
    THEN [raised |-> FALSE, val |-> <<y, m, d>>]
    ELSE [raised |-> TRUE, val |-> None]

\* datetime.fromisoformat on the ten characters YYYY-MM-DD
fromisoformat(s) ==
    datetime_new(int_of(SubSeq(s, 1, 4)), int_of(SubSeq(s, 6, 7)),
                 int_of(SubSeq(s, 9, 10)))

Pad(n, width) ==
    [i \in 1..width |-> DigitChar((n \div (10 ^ (width - i))) % 10)]

\* date.isoformat()
isoformat(dt) == Pad(dt[1], 4) \o <<"-">> \o Pad(dt[2], 2) \o <<"-">> \o Pad(dt[3], 2)

\* \d{4}-\d{2}-\d{2} matches at position i
IsoShapeAt(s, i) ==
    /\ \A k \in {0, 1, 2, 3, 5, 6, 8, 9} : IsDigitAt(s, i + k)
    /\ CharAt(s, i + 4) = "-"
    /\ CharAt(s, i + 7) = "-"

\* (\d{4}-\d{2}-\d{2})T\d{2}:\d{2} matches at position i
IsoTShapeAt(s, i) ==
    /\ IsoShapeAt(s, i)
    /\ CharAt(s, i + 10) = "T"
    /\ \A k \in {11, 12, 14, 15} : IsDigitAt(s, i + k)
    /\ CharAt(s, i + 13) = ":"

\* re.search: the leftmost position where the pattern matches, 0 when none
first_match(hits) ==
    IF hits = {} THEN 0 ELSE CHOOSE i \in hits : \A j \in hits : i <= j

search_iso(s) == first_match({i \in 1..Len(s) : IsoShapeAt(s, i)})

search_iso_t(s) == first_match({i \in 1..Len(s) : IsoTShapeAt(s, i)})

\* "try: dt = datetime.fromisoformat(...); return dt.date().isoformat()
\*  except Exception: pass"
iso_date_or_none(dt) == IF dt.raised THEN None ELSE isoformat(dt.val)

\* One "if m: try: ... except Exception: pass" block of try_parse_iso:
\* the ISO form of the match at position m, None when there is no match or
\* fromisoformat raises.
iso_attempt(s, m) ==
    IF m = 0 THEN None ELSE iso_date_or_none(fromisoformat(SubSeq(s, m, m + 9)))

\* the second block of try_parse_iso runs when the first did not return
iso_second_block(first, s) ==
    IF first # None THEN first ELSE iso_attempt(s, search_iso_t(s))

\* try_parse_iso without its second search
try_parse_iso_first_only(date_text0) ==
    iso_attempt(strip(date_text0), search_iso(strip(date_text0)))

\* try_parse_iso on the stripped text
iso_blocks(s) == iso_second_block(iso_attempt(s, search_iso(s)), s)

try_parse_iso(date_text0) == iso_blocks(strip(date_text0))

SWEDISH_MONTHS_get(month_name) ==
    CASE month_name = <<"j","a","n","u","a","r","i">> -> 1
      [] month_name = <<"f","e","b","r","u","a","r","i">> -> 2
      [] month_name = <<"m","a","r","s">> -> 3
      [] month_name = <<"a","p","r","i","l">> -> 4
      [] month_name = <<"m","a","j">> -> 5
      [] month_name = <<"j","u","n","i">> -> 6
      [] month_name = <<"j","u","l","i">> -> 7
      [] month_name = <<"a","u","g","u","s","t","i">> -> 8
      [] month_name = <<"s","e","p","t","e","m","b","e","r">> -> 9
      [] month_name = <<"o","k","t","o","b","e","r">> -> 10
      [] month_name = <<"n","o","v","e","m","b","e","r">> -> 11
      [] month_name = <<"d","e","c","e","m","b","e","r">> -> 12
      [] OTHER -> 0

\* (\d{1,2})\s+([a-z]+)\s+(\d{4}) at position i.  The classes of adjacent
\* pieces are disjoint, so the greedy match is the only one: one or two
\* digits, a whitespace run, a letter run, a whitespace run, four digits.
\* (The pattern's class also holds the letters a-ring, a-umlaut, o-umlaut,
\* which no input here uses.)
\* The number of digits group 1 takes at position i, 0 when it cannot match.
SweDayLen(s, i) ==
    IF ~IsDigitAt(s, i) THEN 0
    ELSE IF IsSpaceAt(s, i + 1) THEN 1
    ELSE IF IsDigitAt(s, i + 1) /\ IsSpaceAt(s, i + 2) THEN 2
    ELSE 0

\* The match with group 1 of nd digits at i, the letters starting at l1 and
\* ending before w2, and group 3 starting at y1.
SweGroups(s, i, nd, l1, w2, y1) ==
    [found |-> /\ nd > 0
               /\ l1 > i + nd
               /\ w2 > l1
               /\ y1 > w2
               /\ \A k \in 0..3 : IsDigitAt(s, y1 + k),
     day_str |-> Slice(s, i, i + nd - 1),
     month_name |-> Slice(s, l1, w2 - 1),
     year_str |-> Slice(s, y1, y1 + 3)]

SweAfterLetters(s, i, nd, l1, w2) ==
    SweGroups(s, i, nd, l1, w2, SkipWhile(s, w2, Whitespace))

SweAfterSpace(s, i, nd, l1) ==
    SweAfterLetters(s, i, nd, l1, SkipWhile(s, l1, AsciiLower))

SweAfterDay(s, i, nd) == SweAfterSpace(s, i, nd, SkipWhile(s, i + nd, Whitespace))

SweMatchAt(s, i) == SweAfterDay(s, i, SweDayLen(s, i))

search_swedish(s) == first_match({i \in 1..Len(s) : SweMatchAt(s, i).found})

\* "dt = datetime(year, month, day); return dt.date().isoformat()"
swedish_date(dt) ==
    IF dt.raised THEN [raised |-> TRUE, val |-> None]
    ELSE [raised |-> FALSE, val |-> isoformat(dt.val)]

\* "month = SWEDISH_MONTHS.get(month_name); if not month: return None"
swedish_month(g, month) ==
    IF month = 0 THEN [raised |-> FALSE, val |-> None]
    ELSE swedish_date(datetime_new(int_of(g.year_str), month, int_of(g.day_str)))

\* "day_str, month_name, year_str = m.groups()"
swedish_groups(g) == swedish_month(g, SWEDISH_MONTHS_get(g.month_name))

\* "if not m: return None"
swedish_match(low, m) ==
    IF m = 0 THEN [raised |-> FALSE, val |-> None]
    ELSE swedish_groups(SweMatchAt(low, m))

swedish_search(low) == swedish_match(low, search_swedish(low))

\* try_parse_swedish up to the datetime() call, which may raise
try_parse_swedish_body(date_text0) == swedish_search(lower(date_text0))

\* the datetime() call is inside try/except Exception
swedish_except(r) == IF r.raised THEN [raised |-> FALSE, val |-> None] ELSE r

try_parse_swedish(date_text0) == swedish_except(try_parse_swedish_body(date_text0))

\* "for fn in (try_parse_iso, try_parse_swedish): val = fn(date_text);
\*  if val: return val"
first_strategy(iso, date_text0) ==
    IF iso # None THEN [raised |-> FALSE, val |-> iso]
    ELSE try_parse_swedish(date_text0)

\* normalize_date: the first strategy that yields a date
normalize_date(date_text0) ==
    IF Len(date_text0) = 0 THEN [raised |-> FALSE, val |-> None]
    ELSE first_strategy(try_parse_iso(date_text0), date_text0)

(***************************************************************************)
(* The listing extractor (pipeline.py)                                     *)
(*                                                                         *)
(* A URL or href is a sequence of pieces whose concatenation is the        *)
(* string: <<"http", "s", "://www.linkoping.se", "/nyheter/", "a">> is     *)
(* https://www.linkoping.se/nyheter/a.  An element is a record             *)
(*   [name, heading, time, text]                                           *)
(* name: the tag; heading: get_text(" ") of the first h1/h2/h3 of its      *)
(* subtree, None when it has none; time: the first <time> of its subtree   *)
(* as [present, datetime, text] (present FALSE when it has none, datetime  *)
(* None when the attribute is absent); text: its get_text(" ").  An anchor *)
(* is                                                                      *)
(*   [href, self, chain]                                                   *)
(* self: the <a> element; chain: its ancestors, parent first, the last     *)
(* one the BeautifulSoup object, whose parent is None.                     *)
(***************************************************************************)
ORIGIN == <<"http", "s", "://www.linkoping.se">>

StartsWith(s, prefix) ==
    Len(s) >= Len(prefix) /\ SubSeq(s, 1, Len(prefix)) = prefix

absolute_url(href) ==
    IF StartsWith(href, <<"http">>) THEN href ELSE ORIGIN \o href

\* a[href^="/nyheter/"], a[href^="https://www.linkoping.se/nyheter/"]
selected(a) ==
    /\ a.href # None
    /\ \/ StartsWith(a.href, <<"/nyheter/">>)
       \/ StartsWith(a.href, ORIGIN \o <<"/nyheter/">>)

RECURSIVE select(_)
select(doc) ==
    IF Len(doc) = 0 THEN <<>>
    ELSE (IF selected(doc[1]) THEN <<doc[1]>> ELSE <<>>) \o select(Tail(doc))

ContainerTags == {"article", "li", "div"}

\* The walk "container = a; for _ in range(3): ..." as the number of
\* parent links followed: 0 is the anchor itself.
RECURSIVE container_walk(_, _, _)
container_walk(a, level, round) ==
    IF round = 3 THEN level
    ELSE IF level = Len(a.chain) THEN level
    ELSE IF a.chain[level + 1].name \in ContainerTags THEN level + 1
    ELSE container_walk(a, level + 1, round + 1)

container_level(a) == container_walk(a, 0, 0)

ElementAt(a, level) == IF level = 0 THEN a.self ELSE a.chain[level]

title_of(a, container) ==
    LET title_el == container.heading
    IN  strip(IF title_el # None THEN clean_text(title_el)
                                 ELSE clean_text(a.self.text))

date_raw_of(container) ==
    LET time_el == container.time
        date_text1 == IF ~time_el.present THEN None
                      ELSE IF time_el.datetime # None /\ Len(time_el.datetime) > 0
                           THEN time_el.datetime
                           ELSE time_el.text
    IN  IF date_text1 = None \/ Len(date_text1) = 0
        THEN clean_text(container.text)
        ELSE date_text1

\* lines 69-89: the candidate of an anchor whose URL is new, on the locals
\* st = [items, seen_urls, scanned, containers, stop]: skipped when its
\* title is empty, else appended, its URL marked seen, and the cap tested
extract_candidate(st, item, cap) ==
    IF Len(item.title) = 0 THEN st
    ELSE [st EXCEPT !.items = Append(@, item),
                    !.seen_urls = @ \cup {item.url},
                    !.stop = (Len(st.items) + 1 >= cap)]

\* lines 56-89: the container walk and what follows it; containers records,
\* for each anchor that reached the walk, <<position, level>>
extract_walked(st, a, pos, url, level, cap) ==
    extract_candidate([st EXCEPT !.containers = Append(@, <<pos, level>>)],
                      [title |-> title_of(a, ElementAt(a, level)),
                       date_raw |-> date_raw_of(ElementAt(a, level)),
                       url |-> url],
                      cap)

\* an iteration that marks the URL seen before the title is known
extract_iter_mark_first(st, a, pos, cap) ==
    IF a.href = None \/ Len(a.href) = 0 THEN [st EXCEPT !.scanned = @ + 1]
    ELSE IF absolute_url(a.href) \in st.seen_urls THEN [st EXCEPT !.scanned = @ + 1]
    ELSE extract_walked([st EXCEPT !.scanned = @ + 1,
                                   !.seen_urls = @ \cup {absolute_url(a.href)}],
                        a, pos, absolute_url(a.href), container_level(a), cap)

\* One iteration of the for loop over the selected anchors
extract_iter(st, a, pos, cap) ==
    IF a.href = None \/ Len(a.href) = 0 THEN [st EXCEPT !.scanned = @ + 1]
    ELSE IF absolute_url(a.href) \in st.seen_urls THEN [st EXCEPT !.scanned = @ + 1]
    ELSE extract_walked([st EXCEPT !.scanned = @ + 1],
                        a, pos, absolute_url(a.href), container_level(a), cap)

RECURSIVE extract_loop(_, _, _, _)
extract_loop(as, pos, st, cap) ==
    IF pos > Len(as) \/ st.stop THEN st
    ELSE extract_loop(as, pos + 1, extract_iter(st, as[pos], pos, cap), cap)

\* extract_main_items: the locals when the function returns; .items is the
\* value returned
extract_main_items(doc, cap) ==
    extract_loop(select(doc), 1,
                 [items |-> <<>>, seen_urls |-> {}, scanned |-> 0,
                  containers |-> <<>>, stop |-> FALSE],
                 cap)

DEFAULT_MAX_ITEMS == 5

(***************************************************************************)
(* The detail extractor and the scrape record (pipeline.py)                *)
(*                                                                         *)
(* A detail page is [article, main, whole], each a region                  *)
(* [present, ps, text]: ps the get_text(" ") of its <p> elements in        *)
(* document order, text its own get_text(" ").                             *)
(***************************************************************************)
\* " ".join(paragraphs) or region.get_text(" "), cleaned
region_content(region) ==
    LET joined == join_sp(region.ps)
    IN  clean_text(IF Len(joined) > 0 THEN joined ELSE region.text)

extract_detail_content(page) ==
    IF page.article.present THEN region_content(page.article)
    ELSE IF page.main.present THEN region_content(page.main)
    ELSE region_content(page.whole)

\* hashlib.md5(...).hexdigest() of the byte strings the model hashes
md5_hexdigest(bytes) ==
    CASE bytes = <<"http", "s", "://www.linkoping.se", "/nyheter/", "a">>
            -> "c86ac977886f06604d441f18ccca966c"
      [] bytes = <<"http", "s", "://www.linkoping.se", "/nyheter/", "b">>
            -> "5341550bd435b7c62f6df708dc6ba7b1"
      [] bytes = <<"R","u","b","r","i","k">> -> "4ecf6b273d67f2120caae7734e1fcf14"
      [] bytes = <<"A","n","n","a","n">> -> "7dfb84ea0ccb01e6322c09493af7bc1a"
      [] bytes = <<"N","y","h","e","t","e","r">> -> "73170d005b60113eb100f7c014f1886b"

\* an id that follows the title
article_id_of_title(url, title, content) == md5_hexdigest(title)

\* line 138: the id of a record
article_id(url, title, content) == md5_hexdigest(url)

\* x or "" for a string or None
or_empty(x) == IF x = None THEN <<>> ELSE x

\* lines 136-143: the record of one candidate, given its content
scrape_record(item, content) ==
    LET iso == normalize_date(or_empty(item.date_raw))
    IN  [raised |-> iso.raised,
         val |-> [id |-> article_id(item.url, item.title, content),
                  title |-> or_empty(item.title),
                  date |-> or_empty(iso.val),
                  url |-> item.url,
                  content |-> content]]

DetailErrors == {"network_error", "http_error"}

\* lines 129-131: the request, raise_for_status and the extraction; page is
\* the page served when the request succeeds
detail_request(outcome, page) ==
    IF outcome \in DetailErrors THEN [raised |-> TRUE, val |-> <<>>]
    ELSE [raised |-> FALSE, val |-> extract_detail_content(page)]

\* the request with no except clause around it
detail_try_uncaught(outcome, page) == detail_request(outcome, page)

\* lines 128-134: try ... except Exception: content = ""
detail_try(outcome, page) ==
    LET r == detail_request(outcome, page)
    IN  IF r.raised THEN [raised |-> FALSE, val |-> <<>>] ELSE r

(***************************************************************************)
(* Upsert and search (pipeline.py, api.py)                                 *)
(***************************************************************************)
\* line 204: the text embedded for an article
embedding_input(a) == a.title \o <<"\n", "\n">> \o a.content

\* the embedding service: the vector of a text, a function of the text
embedding(text) == [embedding_of |-> text]

\* metadata that carries the body too
upsert_entry_with_content(article, vector) ==
    [id |-> article.id,
     values |-> vector,
     metadata |-> [title |-> article.title, date |-> article.date,
                   url |-> article.url, content |-> article.content]]

\* lines 208-216: one entry of the batch
upsert_entry(article, vector) ==
    [id |-> article.id,
     values |-> vector,
     metadata |-> [title |-> article.title, date |-> article.date, url |-> article.url]]

\* lines 206-216: zip(articles, vectors)
upserts_of(articles, vectors) ==
    [i \in 1..(IF Len(articles) < Len(vectors) THEN Len(articles) ELSE Len(vectors))
        |-> upsert_entry(articles[i], vectors[i])]

\* Index.upsert: each vector replaces the entry of the same id
RECURSIVE index_upsert(_, _)
index_upsert(ix, upserts) ==
    IF Len(upserts) = 0 THEN ix
    ELSE index_upsert({e \in ix : e.id # upserts[1].id} \cup {upserts[1]}, Tail(upserts))

\* md.get(key, "")
md_get(md, key) == IF key \in DOMAIN md THEN md[key] ELSE <<>>

\* api.py lines 53-60: the Search Result of one match
search_result(match) ==
    LET md == match.metadata
    IN  [title |-> md_get(md, "title"),
         date |-> md_get(md, "date"),
         url |-> md_get(md, "url"),
         content |-> md_get(md, "content"),
         score |-> IF match.score.present THEN match.score.val ELSE 0]

\* Index.query: the matches are top_k entries of the index (all of them
\* when it holds fewer), in the order of their scores, which the model
\* leaves open
Matches(ix, top_k) ==
    LET k == IF Cardinality(ix) < top_k THEN Cardinality(ix) ELSE top_k
    IN  { m \in [1..k -> ix] : \A i, j \in 1..k : m[i] = m[j] => i = j }

as_match(e) ==
    [id |-> e.id, score |-> [present |-> TRUE, val |-> 1], metadata |-> e.metadata]

(***************************************************************************)
(* The index provisioner (pipeline.py, ensure_pinecone_index)              *)
(*                                                                         *)
(* The response of pc.list_indexes() is a record                           *)
(*   [has_names, iterable, elems]                                          *)
(* has_names: it has a names() method; iterable: iter() works on it;       *)
(* elems: its elements, each [kind, name] with kind                        *)
(*   "dict"    a mapping {"name": ...}                                     *)
(*   "object"  an object with a name attribute and no get method           *)
(*   "record"  such an object that is unhashable (a dataclass with __eq__, *)
(*             a SimpleNamespace)                                          *)
(*   "model"   an object with a name attribute and a get method            *)
(*   "str"     the name itself.                                            *)
(* A member of the local set names is [kind, name]: kind "str" for a       *)
(* string, the element's kind for an element put in the set as it is.      *)
(***************************************************************************)
SdkShapes == {"IndexList", "dicts", "objects", "records", "models", "strings", "none"}

ElemKind(shape) ==
    CASE shape = "IndexList" -> "model"
      [] shape = "dicts" -> "dict"
      [] shape = "objects" -> "object"
      [] shape = "records" -> "record"
      [] shape = "models" -> "model"
      [] shape = "strings" -> "str"
      [] OTHER -> "none"

\* what pc.list_indexes() returns for the indexes that exist
list_indexes_response(shape, existing) ==
    [has_names |-> shape = "IndexList",
     iterable |-> shape # "none",
     elems |-> IF shape = "none" THEN {}
               ELSE { [kind |-> ElemKind(shape), name |-> n] : n \in existing }]

Str(n) == [kind |-> "str", name |-> n]

\* i.get("name"): AttributeError when i has no get
elem_get_name(i) ==
    IF i.kind \in {"dict", "model"} THEN [raised |-> FALSE, val |-> Str(i.name)]
    ELSE [raised |-> TRUE, val |-> Str("")]

\* getattr(i, "name", i.get("name")): the default is evaluated first
getattr_name(i) ==
    LET default == elem_get_name(i)
    IN  IF default.raised THEN default
        ELSE IF i.kind \in {"object", "record", "model"}
             THEN [raised |-> FALSE, val |-> Str(i.name)]
             ELSE default

\* the try block: names() when there is one, else the name of each element
names_first_attempt(li) ==
    IF li.has_names THEN [raised |-> FALSE, val |-> {Str(i.name) : i \in li.elems}]
    ELSE IF ~li.iterable THEN [raised |-> TRUE, val |-> {}]
    ELSE IF \E i \in li.elems : getattr_name(i).raised THEN [raised |-> TRUE, val |-> {}]
    ELSE [raised |-> FALSE, val |-> {getattr_name(i).val : i \in li.elems}]

\* set(li): TypeError when li is not iterable or an element is unhashable
names_fallback(li) ==
    IF ~li.iterable THEN [raised |-> TRUE, val |-> {}]
    ELSE IF \E i \in li.elems : i.kind \in {"dict", "record"} THEN [raised |-> TRUE, val |-> {}]
    ELSE [raised |-> FALSE, val |-> li.elems]

\* lines 154-166 without the except clauses
names_unguarded(li) ==
    LET first == names_first_attempt(li)
    IN  [names |-> first.val,
         intro |-> IF first.raised THEN "raised" ELSE "ok"]

\* lines 154-166: the set names, and how it was obtained: "ok" (the try
\* block), "fallback" (set(li) after the try block raised), "failed" (both
\* raised: names is empty), "raised" (an exception left the block)
names_of(li) ==
    LET first == names_first_attempt(li)
        second == names_fallback(li)
    IN  IF ~first.raised THEN [names |-> first.val, intro |-> "ok"]
        ELSE IF ~second.raised THEN [names |-> second.val, intro |-> "fallback"]
        ELSE [names |-> {}, intro |-> "failed"]

(***************************************************************************)
(* Date inputs: up to MaxChunks pieces joined by one space                 *)
(***************************************************************************)
MaxChunks == 2

DateChunks ==
    { <<"2","0","2","4","-","0","9","-","0","1">>,
      <<"2","0","2","4","-","1","3","-","0","1">>,
      <<"2","0","2","3","-","0","2","-","2","9">>,
      <<"0","0","0","0","-","0","1","-","0","1">>,
      <<"2","0","2","4","-","0","9","-","0","2","T","1","2",":","3","4">>,
      <<"2","8"," ","a","u","g","u","s","t","i"," ","2","0","2","4">>,
      <<"3","2"," ","M","a","j"," ","2","0","2","4">>,
      <<"3"," ","b","a","n","a","n","e","r"," ","2","0","2","4">>,
      <<"P","u","b","l","i","c","e","r","a","d">> }

DateInputs ==
    { join_sp(cs) : cs \in UNION { [1..n -> DateChunks] : n \in 0..MaxChunks } }

(***************************************************************************)
(* Listing documents: up to MaxAnchors anchors out of Anchors              *)
(***************************************************************************)
MaxAnchors == 3
MaxCap == 3

NoTime == [present |-> FALSE, datetime |-> None, text |-> <<>>]

Rubrik == <<"R","u","b","r","i","k">>
Annan == <<"A","n","n","a","n">>
Sidrubrik == <<"N","y","h","e","t","e","r">>
Date28 == <<"2","8"," ","a","u","g","u","s","t","i"," ","2","0","2","4">>
Iso28 == <<"2","0","2","4","-","0","8","-","2","8">>

\* A node of the parsed tree: a tag with its attributes and children, or a
\* text node ("#text") with its string.  href and datetime are None when
\* the attribute is absent.
Node(name, href, datetime, text, kids) ==
    [name |-> name, href |-> href, datetime |-> datetime, text |-> text, kids |-> kids]

TextNode(t) == Node("#text", None, None, t, <<>>)
Tag(name, kids) == Node(name, None, None, <<>>, kids)
AnchorTag(href, kids) == Node("a", href, None, <<>>, kids)
TimeTag(datetime, kids) == Node("time", None, datetime, <<>>, kids)

\* find() that finds nothing
NoNode == Node("", None, None, <<>>, <<>>)

\* the strings of the text nodes under a node, in document order
RECURSIVE strings(_)
RECURSIVE strings_of(_)
strings(node) ==
    IF node.name = "#text" THEN <<node.text>> ELSE strings_of(node.kids)

strings_of(kids) ==
    IF Len(kids) = 0 THEN <<>> ELSE strings(kids[1]) \o strings_of(Tail(kids))

\* node.get_text(" ")
get_text(node) == join_sp(strings(node))

first_found(r, rest) == IF r # NoNode THEN r ELSE rest

\* the first tag among kids and their descendants, in document order, whose
\* name is in names
RECURSIVE find_in(_, _)
find_in(kids, names) ==
    IF Len(kids) = 0 THEN NoNode
    ELSE IF kids[1].name \in names THEN kids[1]
    ELSE first_found(find_in(kids[1].kids, names), find_in(Tail(kids), names))

\* node.find(names): the first descendant with one of the names
find(node, names) == find_in(node.kids, names)

\* title_el.get_text(" ") of the heading found, None when there is none
heading_text(title_el) == IF title_el = NoNode THEN None ELSE get_text(title_el)

\* the <time> found, as [present, datetime, text]
time_of(time_el) ==
    IF time_el = NoNode THEN NoTime
    ELSE [present |-> TRUE, datetime |-> time_el.datetime, text |-> get_text(time_el)]

\* what the loop body reads of an element
El(node) ==
    [name |-> node.name,
     heading |-> heading_text(find(node, {"h1", "h2", "h3"})),
     time |-> time_of(find(node, {"time"})),
     text |-> get_text(node)]

\* the node at a path of child positions below root
RECURSIVE NodeAt(_, _)
NodeAt(root, path) ==
    IF Len(path) = 0 THEN root ELSE NodeAt(root.kids[path[1]], Tail(path))

\* the paths of the <a> tags among kids[i..] and their descendants, in
\* document order
RECURSIVE anchor_paths(_, _, _)
anchor_paths(kids, prefix, i) ==
    IF i > Len(kids) THEN <<>>
    ELSE (IF kids[i].name = "a" THEN <<Append(prefix, i)>> ELSE <<>>)
         \o anchor_paths(kids[i].kids, Append(prefix, i), 1)
         \o anchor_paths(kids, prefix, i + 1)

\* the ancestors of the node at path, parent first, the document last
chain_of(doc, path) ==
    [k \in 1..Len(path) |-> El(NodeAt(doc, SubSeq(path, 1, Len(path) - k)))]

A(doc, path) ==
    [href |-> NodeAt(doc, path).href,
     self |-> El(NodeAt(doc, path)),
     chain |-> chain_of(doc, path)]

REL_A == <<"/nyheter/", "a">>
REL_B == <<"/nyheter/", "b">>
ABS_A == <<"http", "s", "://www.linkoping.se", "/nyheter/", "a">>
ELSEWHERE == <<"/annat/", "x">>

\* <article><h2> Rubrik\n</h2><time datetime="2024-08-28">28 augusti 2024</time>
\* <a href=...>Rubrik</a></article>
ArticleEl(href) ==
    Tag("article", << Tag("h2", <<TextNode(<<" ">> \o Rubrik \o <<"\n">>)>>),
                      TimeTag(Iso28, <<TextNode(Date28)>>),
                      AnchorTag(href, <<TextNode(Rubrik)>>) >>)

\* <li><span><a href=...>Annan</a></span> 28 augusti 2024</li>
LiEl(href) ==
    Tag("li", << Tag("span", <<AnchorTag(href, <<TextNode(Annan)>>)>>),
                 TextNode(<<" ">> \o Date28) >>)

\* <nav><p><span><a href=...><img></a></span></p></nav>
NavEl(href) ==
    Tag("nav", << Tag("p", << Tag("span", <<AnchorTag(href, <<Tag("img", <<>>)>>)>>) >>) >>)

\* <div><section><h1>Nyheter</h1><time>28 augusti 2024</time>
\* <p><span><a href=...>Annan</a></span></p></section></div>: the div is the
\* fourth ancestor of the anchor
DivEl(href) ==
    Tag("div",
        << Tag("section",
               << Tag("h1", <<TextNode(Sidrubrik)>>),
                  TimeTag(None, <<TextNode(Date28)>>),
                  Tag("p", << Tag("span", <<AnchorTag(href, <<TextNode(Annan)>>)>>) >>) >>) >>)

\* The pieces of the listing pages, by name; each holds one anchor
AnchorAt(id) ==
    CASE id = "art_rel_a" -> ArticleEl(REL_A)
      [] id = "li_abs_a" -> LiEl(ABS_A)
      [] id = "img_rel_a" -> NavEl(REL_A)
      [] id = "deep_rel_b" -> DivEl(REL_B)
      [] id = "blank_rel_b" -> AnchorTag(REL_B, <<TextNode(<<" ", "\n">>)>>)
      [] id = "bare_abs_a" -> AnchorTag(ABS_A, <<TextNode(Rubrik)>>)
      [] id = "elsewhere" -> ArticleEl(ELSEWHERE)

Anchors ==
    {"art_rel_a", "li_abs_a", "img_rel_a", "deep_rel_b", "blank_rel_b",
     "bare_abs_a", "elsewhere"}

\* BeautifulSoup(resp.text, "html.parser") of the page made of the pieces a
\* listing names, in order: one tree, the pieces the children of its root
Document(listing) ==
    Tag("[document]", [i \in 1..Len(listing) |-> AnchorAt(listing[i])])

anchors_at(doc, paths) == [i \in 1..Len(paths) |-> A(doc, paths[i])]

anchors_of(doc) == anchors_at(doc, anchor_paths(doc.kids, <<>>, 1))

\* the <a> tags of the parsed page, in document order, each with its
\* ancestors
Parsed(listing) == anchors_of(Document(listing))

Listings == UNION { [1..n -> Anchors] : n \in 0..MaxAnchors }


(***************************************************************************)
(* Detail pages, by name                                                   *)
(***************************************************************************)
NoRegion == [present |-> FALSE, ps |-> <<>>, text |-> <<>>]

Region(ps, text) == [present |-> TRUE, ps |-> ps, text |-> text]

DelEtt == <<"D","e","l"," ","e","t","t",".">>
DelTva == <<"D","e","l"," ","t","v","a",".">>
NyText == <<" ","N","y"," ","\n"," ","t","e","x","t"," ">>
Brodtext == <<"B","r","o","d","t","e","x","t">>

DetailPageAt(id) ==
    CASE id = "main_two_p" ->
            \* <main><p>Del ett.</p><p>Del tva.</p></main>
            [article |-> NoRegion,
             main |-> Region(<<DelEtt, DelTva>>, DelEtt \o <<" ">> \o DelTva),
             whole |-> Region(<<DelEtt, DelTva>>, DelEtt \o <<" ">> \o DelTva)]
      [] id = "article_no_p" ->
            \* <main><article> Ny \n text </article><p>Del ett.</p></main>
            [article |-> Region(<<>>, NyText),
             main |-> Region(<<DelEtt>>, NyText \o <<" ">> \o DelEtt),
             whole |-> Region(<<DelEtt>>, NyText \o <<" ">> \o DelEtt)]
      [] id = "bare" ->
            \* <p>Brodtext</p>
            [article |-> NoRegion, main |-> NoRegion,
             whole |-> Region(<<Brodtext>>, Brodtext)]
      [] OTHER -> [article |-> NoRegion, main |-> NoRegion, whole |-> Region(<<>>, <<>>)]

DetailPages == {"main_two_p", "article_no_p", "bare"}

\* what the site may serve for a URL
PagesOf(url) ==
    IF url = ORIGIN \o <<"/nyheter/", "a">> THEN {"main_two_p", "article_no_p"}
    ELSE {"bare"}

\* what a detail request for a URL may give
DetailOutcomes(url) == DetailErrors \cup PagesOf(url)

\* what the listing URL serves
SiteListings ==
    { <<>>,
      <<"art_rel_a", "deep_rel_b">>,
      <<"li_abs_a">>,
      <<"img_rel_a", "bare_abs_a", "elsewhere">> }

INDEX_NAME == "linkoping"

IndexNames == {INDEX_NAME, "annat"}

Queries == { <<>>, <<" ", "\t">>, <<"n","y","h","e","t","e","r">> }

MaxEnsureCalls == 2
MaxPolls == 2
MaxRuns == 2
MaxTopK == 2

(***************************************************************************)
(* The states in which a part of the program is not running                *)
(***************************************************************************)
DateIdle ==
    /\ date_text = <<>>
    /\ d_pc = "idle"
    /\ d_out = None

ExtractIdle ==
    /\ soup = <<>>
    /\ max_items = 0
    /\ ex_pc = "idle"
    /\ ex_out = extract_main_items(<<>>, 0)

NoPrev == [name |-> "", creates |-> 0, outcome |-> "none"]

NoResponse == [status |-> 0, results |-> <<>>]

EnsureIdle ==
    /\ e_pc = "idle"
    /\ e_name = ""
    /\ e_names = {}
    /\ e_intro = ""
    /\ e_existed = FALSE
    /\ e_raised_by = ""
    /\ n_create = 0
    /\ n_describe = 0
    /\ e_calls = 0
    /\ e_prev = NoPrev

ServiceIdle ==
    /\ ix_exists = {}
    /\ ix_ready = {}
    /\ sdk_shape = "IndexList"
    /\ index = {}

MainIdle ==
    /\ m_pc = "idle"
    /\ m_runs = 0
    /\ keys_ok = TRUE
    /\ listing_failed = FALSE
    /\ main_items = <<>>
    /\ results = <<>>
    /\ s_fetch = <<>>
    /\ snapshot = None
    /\ n_save = 0
    /\ u_vectors = <<>>
    /\ n_embed = 0
    /\ n_upsert = 0
    /\ upserted = {}
    /\ search_out = NoResponse

(***************************************************************************)
(* normalize_date as a call                                                *)
(***************************************************************************)
DateInit ==
    /\ date_text \in DateInputs
    /\ d_pc = "call"
    /\ d_out = None
    /\ ExtractIdle /\ ServiceIdle /\ EnsureIdle /\ MainIdle

CallNormalizeDate ==
    /\ d_pc = "call"
    /\ LET r == normalize_date(date_text)
       IN  /\ d_pc' = IF r.raised THEN "raised" ELSE "returned"
           /\ d_out' = r.val
    /\ UNCHANGED <<date_text, extractVars, serviceVars, ensureVars, scrapeVars,
                   mainVars, search_out>>

DateNext == CallNormalizeDate

DateSpec == DateInit /\ [][DateNext]_vars

(***************************************************************************)
(* extract_main_items as a call                                            *)
(***************************************************************************)
ExtractInit ==
    /\ soup \in Listings
    /\ max_items \in 0..MaxCap
    /\ ex_pc = "call"
    /\ ex_out = extract_main_items(<<>>, 0)
    /\ DateIdle /\ ServiceIdle /\ EnsureIdle /\ MainIdle

CallExtractMainItems ==
    /\ ex_pc = "call"
    /\ ex_out' = extract_main_items(Parsed(soup), max_items)
    /\ ex_pc' = "returned"
    /\ UNCHANGED <<soup, max_items, dateVars, serviceVars, ensureVars, scrapeVars,
                   mainVars, search_out>>

ExtractNext == CallExtractMainItems

ExtractSpec == ExtractInit /\ [][ExtractNext]_vars

(***************************************************************************)
(* ensure_pinecone_index, one step per call to the service                 *)
(***************************************************************************)
\* the call returns; main, when it is the caller, goes on to the upsert
EnsureReturns ==
    /\ e_pc' = "returned"
    /\ m_pc' = IF m_pc = "ensure"
               THEN (IF Len(results) = 0 THEN "upsert" ELSE "embed")
               ELSE m_pc

\* an exception leaves the call, and main when it is the caller
EnsureRaises(by) ==
    /\ e_pc' = "raised"
    /\ e_raised_by' = by
    /\ m_pc' = IF m_pc = "ensure" THEN "raised" ELSE m_pc

mainRest == <<m_runs, keys_ok, snapshot, n_save, u_vectors, n_embed, n_upsert, upserted>>

\* lines 152-168: list_indexes, the names, the membership test
E_ListIndexes ==
    /\ e_pc = "list"
    /\ \/ /\ EnsureRaises("list_indexes")
          /\ UNCHANGED <<e_names, e_intro, e_existed>>
       \/ LET r == names_of(list_indexes_response(sdk_shape, ix_exists))
          IN  /\ e_names' = r.names
              /\ e_intro' = r.intro
              /\ e_existed' = (e_name \in ix_exists)
              /\ IF r.intro = "raised"
                 THEN EnsureRaises("names")
                 ELSE /\ e_pc' = IF Str(e_name) \in r.names THEN "poll" ELSE "create"
                      /\ UNCHANGED <<e_raised_by, m_pc>>
    /\ UNCHANGED <<e_name, n_create, n_describe, e_calls, e_prev>>
    /\ UNCHANGED <<dateVars, extractVars, serviceVars, scrapeVars, mainRest, search_out>>

\* lines 169-174: create_index; the service refuses a name that exists
E_CreateIndex ==
    /\ e_pc = "create"
    /\ n_create' = n_create + 1
    /\ \/ /\ EnsureRaises("create_index")
          /\ UNCHANGED <<ix_exists>>
       \/ /\ e_name \notin ix_exists
          /\ ix_exists' = ix_exists \cup {e_name}
          /\ e_pc' = "poll"
          /\ UNCHANGED <<e_raised_by, m_pc>>
    /\ UNCHANGED <<e_name, e_names, e_intro, e_existed, n_describe, e_calls, e_prev>>
    /\ UNCHANGED <<dateVars, extractVars, ix_ready, sdk_shape, index, scrapeVars,
                   mainRest, search_out>>

\* lines 177-190: one round of the readiness poll
E_DescribeIndex ==
    /\ e_pc = "poll"
    /\ n_describe' = n_describe + 1
    /\ \/ EnsureRaises("describe_index")
       \/ /\ e_name \in ix_ready
          /\ EnsureReturns
          /\ UNCHANGED e_raised_by
       \/ /\ e_name \in ix_exists \ ix_ready
          /\ n_describe < MaxPolls
          /\ UNCHANGED <<e_pc, e_raised_by, m_pc>>
    /\ UNCHANGED <<e_name, e_names, e_intro, e_existed, n_create, e_calls, e_prev>>
    /\ UNCHANGED <<dateVars, extractVars, serviceVars, scrapeVars, mainRest, search_out>>

\* the service finishes bringing an index up
Env_IndexReady ==
    /\ \E n \in ix_exists \ ix_ready : ix_ready' = ix_ready \cup {n}
    /\ UNCHANGED <<ix_exists, sdk_shape, index>>
    /\ UNCHANGED <<dateVars, extractVars, ensureVars, scrapeVars, mainVars, search_out>>

\* a caller other than main calls ensure_pinecone_index
E_Call ==
    /\ m_pc = "idle"
    /\ e_pc \in {"idle", "returned", "raised"}
    /\ e_calls < MaxEnsureCalls
    /\ \E name \in IndexNames : e_name' = name
    /\ e_pc' = "list"
    /\ e_prev' = IF e_pc = "idle" THEN NoPrev
                 ELSE [name |-> e_name, creates |-> n_create, outcome |-> e_pc]
    /\ e_calls' = e_calls + 1
    /\ e_names' = {}
    /\ e_intro' = ""
    /\ e_existed' = FALSE
    /\ e_raised_by' = ""
    /\ n_create' = 0
    /\ n_describe' = 0
    /\ UNCHANGED <<dateVars, extractVars, serviceVars, scrapeVars, mainVars, search_out>>

EnsureInit ==
    /\ ix_exists \in SUBSET IndexNames
    /\ ix_ready \in SUBSET ix_exists
    /\ sdk_shape \in SdkShapes
    /\ index = {}
    /\ DateIdle /\ ExtractIdle /\ EnsureIdle /\ MainIdle

EnsureNext ==
    \/ E_Call
    \/ E_ListIndexes
    \/ E_CreateIndex
    \/ E_DescribeIndex
    \/ Env_IndexReady

EnsureSpec == EnsureInit /\ [][EnsureNext]_vars

(***************************************************************************)
(* main: scrape, save_json, ensure_pinecone_index, upsert_to_pinecone,     *)
(* one step per request to the site or to a service                        *)
(***************************************************************************)
PipelineShapes == {"IndexList", "objects"}

\* python -m src.pipeline: a run starts
M_Start ==
    /\ m_pc \in {"idle", "done", "raised"}
    /\ m_runs < MaxRuns
    /\ m_runs' = m_runs + 1
    /\ m_pc' = "fetch_listing"
    /\ listing_failed' = FALSE
    /\ main_items' = <<>>
    /\ results' = <<>>
    /\ s_fetch' = <<>>
    /\ n_save' = 0
    /\ u_vectors' = <<>>
    /\ n_embed' = 0
    /\ n_upsert' = 0
    /\ e_pc' = "idle"
    /\ e_name' = ""
    /\ e_names' = {}
    /\ e_intro' = ""
    /\ e_existed' = FALSE
    /\ e_raised_by' = ""
    /\ n_create' = 0
    /\ n_describe' = 0
    /\ search_out' = NoResponse
    /\ UNCHANGED <<e_calls, e_prev, keys_ok, snapshot, upserted>>
    /\ UNCHANGED <<dateVars, extractVars, serviceVars>>

\* the listing request with its failure swallowed: scrape returns no records
S_FetchListing_swallowed ==
    /\ m_pc = "fetch_listing"
    /\ \/ /\ listing_failed' = TRUE
          /\ m_pc' = "save"
          /\ UNCHANGED main_items
       \/ \E doc \in SiteListings :
            LET items == extract_main_items(Parsed(doc), DEFAULT_MAX_ITEMS).items
            IN  /\ main_items' = items
                /\ m_pc' = IF Len(items) = 0 THEN "save" ELSE "detail"
                /\ UNCHANGED listing_failed
    /\ UNCHANGED <<results, s_fetch>>
    /\ UNCHANGED <<m_runs, keys_ok, snapshot, n_save, u_vectors, n_embed, n_upsert, upserted>>
    /\ UNCHANGED <<dateVars, extractVars, serviceVars, ensureVars, search_out>>

\* scrape, lines 119-124: the listing request; its failure leaves scrape
\* and main
S_FetchListing ==
    /\ m_pc = "fetch_listing"
    /\ \/ /\ listing_failed' = TRUE
          /\ m_pc' = "raised"
          /\ UNCHANGED main_items
       \/ \E doc \in SiteListings :
            LET items == extract_main_items(Parsed(doc), DEFAULT_MAX_ITEMS).items
            IN  /\ main_items' = items
                /\ m_pc' = IF Len(items) = 0 THEN "save" ELSE "detail"
                /\ UNCHANGED listing_failed
    /\ UNCHANGED <<results, s_fetch>>
    /\ UNCHANGED <<m_runs, keys_ok, snapshot, n_save, u_vectors, n_embed, n_upsert, upserted>>
    /\ UNCHANGED <<dateVars, extractVars, serviceVars, ensureVars, search_out>>

\* scrape, lines 126-148: one round of the loop over main_items
S_Detail ==
    /\ m_pc = "detail"
    /\ \E outcome \in DetailOutcomes(main_items[Len(results) + 1].url) :
          LET item == main_items[Len(results) + 1]
              content == detail_try(outcome, DetailPageAt(outcome))
              rec == scrape_record(item, content.val)
          IN  /\ s_fetch' = Append(s_fetch, outcome)
              /\ IF content.raised \/ rec.raised
                 THEN /\ m_pc' = "raised"
                      /\ UNCHANGED results
                 ELSE /\ results' = Append(results, rec.val)
                      /\ m_pc' = IF Len(results) + 1 = Len(main_items)
                                 THEN "save" ELSE "detail"
    /\ UNCHANGED <<listing_failed, main_items>>
    /\ UNCHANGED <<m_runs, keys_ok, snapshot, n_save, u_vectors, n_embed, n_upsert, upserted>>
    /\ UNCHANGED <<dateVars, extractVars, serviceVars, ensureVars, search_out>>

\* main, lines 234-250: the snapshot, the credentials, the call of
\* ensure_pinecone_index
M_SaveJson ==
    /\ m_pc = "save"
    /\ n_save' = n_save + 1
    /\ snapshot' = results
    /\ IF keys_ok
       THEN /\ m_pc' = "ensure"
            /\ e_pc' = "list"
            /\ e_name' = INDEX_NAME
       ELSE /\ m_pc' = "raised"
            /\ UNCHANGED <<e_pc, e_name>>
    /\ UNCHANGED <<e_names, e_intro, e_existed, e_raised_by, n_create, n_describe,
                   e_calls, e_prev>>
    /\ UNCHANGED <<m_runs, keys_ok, u_vectors, n_embed, n_upsert, upserted>>
    /\ UNCHANGED <<dateVars, extractVars, serviceVars, scrapeVars, search_out>>

\* embed_texts, lines 196-198: one embedding request
U_Embed ==
    /\ m_pc = "embed"
    /\ n_embed' = n_embed + 1
    /\ \/ /\ m_pc' = "raised"
          /\ UNCHANGED u_vectors
       \/ /\ u_vectors' = Append(u_vectors,
                                 embedding(embedding_input(results[Len(u_vectors) + 1])))
          /\ m_pc' = IF Len(u_vectors) + 1 = Len(results) THEN "upsert" ELSE "embed"
    /\ UNCHANGED <<m_runs, keys_ok, snapshot, n_save, n_upsert, upserted>>
    /\ UNCHANGED <<dateVars, extractVars, serviceVars, ensureVars, scrapeVars, search_out>>

\* upsert_to_pinecone, lines 206-218: the batch and the one upsert request
U_Upsert ==
    /\ m_pc = "upsert"
    /\ n_upsert' = n_upsert + 1
    /\ \/ /\ m_pc' = "raised"
          /\ UNCHANGED <<index, upserted>>
       \/ LET upserts == upserts_of(results, u_vectors)
          IN  /\ index' = index_upsert(index, upserts)
              /\ upserted' = upserted \cup {upserts[i] : i \in 1..Len(upserts)}
              /\ m_pc' = "done"
    /\ UNCHANGED <<m_runs, keys_ok, snapshot, n_save, u_vectors, n_embed>>
    /\ UNCHANGED <<ix_exists, ix_ready, sdk_shape>>
    /\ UNCHANGED <<dateVars, extractVars, ensureVars, scrapeVars, search_out>>

\* api.py, search: a request between two runs (the index changes only in
\* U_Upsert, so a request during a run sees what one before the run sees)
Search ==
    /\ m_pc \in {"idle", "done", "raised"}
    /\ \E query \in Queries, top_k \in 1..MaxTopK :
          \/ /\ Len(strip(query)) = 0
             /\ search_out' = [status |-> 400, results |-> <<>>]
          \/ /\ Len(strip(query)) # 0
             /\ search_out' = [status |-> 500, results |-> <<>>]
          \/ /\ Len(strip(query)) # 0
             /\ \E m \in Matches(index, top_k) :
                   search_out' =
                       [status |-> 200,
                        results |-> [i \in 1..Len(m) |-> search_result(as_match(m[i]))]]
    /\ UNCHANGED <<dateVars, extractVars, serviceVars, ensureVars, scrapeVars, mainVars>>

PipelineInit ==
    /\ ix_exists \in {{}, {INDEX_NAME}}
    /\ ix_ready = ix_exists
    /\ sdk_shape \in PipelineShapes
    /\ index = {}
    /\ DateIdle /\ ExtractIdle /\ EnsureIdle
    /\ m_pc = "idle"
    /\ m_runs = 0
    /\ keys_ok \in BOOLEAN
    /\ listing_failed = FALSE
    /\ main_items = <<>>
    /\ results = <<>>
    /\ s_fetch = <<>>
    /\ snapshot = None
    /\ n_save = 0
    /\ u_vectors = <<>>
    /\ n_embed = 0
    /\ n_upsert = 0
    /\ upserted = {}
    /\ search_out = NoResponse

PipelineNext ==
    \/ M_Start
    \/ S_FetchListing
    \/ S_Detail
    \/ M_SaveJson
    \/ E_ListIndexes
    \/ E_CreateIndex
    \/ E_DescribeIndex
    \/ Env_IndexReady
    \/ U_Embed
    \/ U_Upsert
    \/ Search

PipelineSpec == PipelineInit /\ [][PipelineNext]_vars

(***************************************************************************)
(* Properties                                                              *)
(***************************************************************************)

\* C1: once the listing page has been fetched, a failing detail request
\* never ends the run: scrape raises nothing, its records are one per
\* candidate, in the candidates' order; the record of a candidate whose
\* request failed has empty content, the others the content extracted
\* from the page served.
C1_DetailFailureKeepsRun ==
    /\ (m_pc = "raised" /\ ~listing_failed) => n_save > 0
    /\ Len(results) = Len(s_fetch)
    /\ Len(results) <= Len(main_items)
    /\ n_save > 0 => Len(results) = Len(main_items)
    /\ \A i \in 1..Len(results) :
          /\ results[i].url = main_items[i].url
          /\ results[i].content =
                IF s_fetch[i] \in DetailErrors THEN <<>>
                ELSE extract_detail_content(DetailPageAt(s_fetch[i]))

C1_Witness ==
    /\ n_save > 0
    /\ Len(results) = 2
    /\ s_fetch[1] \in DetailErrors
    /\ s_fetch[2] \notin DetailErrors
    /\ results[1].content = <<>>
    /\ results[2].content # <<>>

\* C2: for every supported shape of the list_indexes response (names(),
\* mappings, attribute objects), a call for a name that exists makes no
\* create_index call, and a second call in a row for the same name after
\* a call that returned makes the total at most one.
SupportedShapes == {"IndexList", "dicts", "objects", "records", "models"}

C2_IdempotentForSupportedShapes ==
    (sdk_shape \in SupportedShapes /\ e_pc \in {"create", "poll", "returned", "raised"})
        => /\ e_existed => (n_create = 0 /\ e_pc # "create")
           /\ (e_prev.outcome = "returned" /\ e_prev.name = e_name)
                 => (e_prev.creates + n_create <= 1 /\ e_pc # "create")

\* C3 as stated: when the introspection throws (the list_indexes call, or
\* the extraction of the names), the call does not fail: it goes on to
\* create_index, called exactly once, then to the poll, and the only
\* exception that leaves it is create_index's.
C3_IntrospectionThrew == e_raised_by = "list_indexes" \/ e_intro \in {"fallback", "failed"}

C3_Original ==
    C3_IntrospectionThrew =>
        /\ e_pc = "raised" => (e_raised_by = "create_index" /\ n_create = 1)
        /\ e_pc \in {"poll", "returned"} => n_create = 1

\* C3, amended: when the extraction of the names throws and set(li) throws
\* too, names is empty and create_index is called exactly once before the
\* poll; when set(li) succeeds, create_index is called exactly when the
\* name is not among its members.  An exception of list_indexes leaves the
\* call before any create_index or describe_index call; the exceptions
\* that leave the call are those of list_indexes, create_index and
\* describe_index, never one of the extraction.
C3_Amended ==
    /\ e_intro = "failed" =>
          /\ e_names = {}
          /\ e_pc \in {"create", "poll", "returned", "raised"}
          /\ n_create = IF e_pc = "create" THEN 0 ELSE 1
    /\ (e_intro = "fallback" /\ e_pc \in {"poll", "returned"}) =>
          n_create = IF Str(e_name) \in e_names THEN 0 ELSE 1
    /\ e_raised_by = "list_indexes" =>
          (e_pc = "raised" /\ n_create = 0 /\ n_describe = 0)
    /\ e_pc = "raised" =>
          e_raised_by \in {"list_indexes", "create_index", "describe_index"}

C3_Witness ==
    /\ e_intro = "failed"
    /\ e_existed = FALSE
    /\ n_create = 1
    /\ e_pc = "returned"

\* C4: when the listing request fails, main ends with the exception and
\* the run makes no create_index, embedding or upsert call and writes no
\* snapshot.
C4_ListingFailureAborts ==
    listing_failed =>
        /\ m_pc = "raised"
        /\ e_pc = "idle"
        /\ n_create = 0
        /\ n_embed = 0
        /\ n_upsert = 0
        /\ n_save = 0

C4_Witness ==
    /\ listing_failed
    /\ m_runs = 2
    /\ index # {}

\* C5: the id is a function of the url alone: entries upserted for one url
\* have one id whatever their title, date and vector, the index holds
\* exactly one entry for each url ever upserted, and after a run's upsert
\* the entry of each of its urls is the one the run wrote.
UrlsOf(entries) == { e.metadata.url : e \in entries }

C5_OneEntryPerUrl ==
    /\ \A e1, e2 \in upserted : e1.metadata.url = e2.metadata.url => e1.id = e2.id
    /\ UrlsOf(index) = UrlsOf(upserted)
    /\ Cardinality(index) = Cardinality(UrlsOf(upserted))
    /\ m_pc = "done" =>
          \A i \in 1..Len(results) :
             \E e \in index :
                /\ e.id = results[i].id
                /\ e.metadata.url = results[i].url
                /\ e.metadata.title = results[i].title
                /\ e.values = embedding(embedding_input(results[i]))

C5_Witness ==
    /\ m_pc = "done"
    /\ m_runs = 2
    /\ \E old \in upserted \ index, new \in index :
          /\ old.metadata.url = new.metadata.url
          /\ old.metadata.title # new.metadata.title
          /\ old.values # new.values

\* C6: for every listing and every cap >= 0, zero included, the extractor
\* returns at most cap items and stops scanning once cap items are
\* collected.
C6_AtMostMaxItems ==
    ex_pc = "returned" =>
        /\ Len(ex_out.items) <= max_items
        /\ max_items = 0 => ex_out.scanned = 0

\* C7 as stated: no two items share a url, and an anchor whose url is that
\* of an earlier anchor is skipped, whatever the title of the first.
Scanned == select(Parsed(soup))

Walked == { ex_out.containers[k][1] : k \in 1..Len(ex_out.containers) }

SameUrl(i, j) == absolute_url(Scanned[i].href) = absolute_url(Scanned[j].href)

HasTitle(i) ==
    Len(title_of(Scanned[i], ElementAt(Scanned[i], container_level(Scanned[i])))) > 0

UniqueUrls ==
    \A i, j \in 1..Len(ex_out.items) :
        ex_out.items[i].url = ex_out.items[j].url => i = j

C7_Original ==
    ex_pc = "returned" =>
        /\ UniqueUrls
        /\ \A j \in 1..ex_out.scanned :
              (\E i \in 1..(j - 1) : SameUrl(i, j)) => j \notin Walked

\* C7, amended: no two items share a url; an anchor is skipped exactly
\* when an earlier anchor with the same url gave an item, that is, had a
\* non-empty title: the item of a url comes from the first anchor with
\* that url whose title is not empty, and an anchor with an empty title
\* gives no item and does not make later anchors with its url skipped.
C7_Amended ==
    ex_pc = "returned" =>
        /\ UniqueUrls
        /\ \A j \in 1..ex_out.scanned :
              j \notin Walked <=> (\E i \in 1..(j - 1) : SameUrl(i, j) /\ HasTitle(i))
        /\ Len(ex_out.items) = Cardinality({j \in Walked : HasTitle(j)})

C7_Witness ==
    /\ ex_pc = "returned"
    /\ ex_out.scanned = 3
    /\ SameUrl(1, 2) /\ SameUrl(2, 3)
    /\ Scanned[1].href # Scanned[3].href
    /\ ~HasTitle(1)
    /\ Walked = {1, 2}
    /\ Len(ex_out.items) = 1

\* C8 as stated: normalize_date never raises, and when the leftmost
\* YYYY-MM-DD substring is no calendar date, the result is what the
\* Swedish strategy gives: no later ISO-like substring is used.
LeftmostIsoInvalid(s) ==
    LET t == strip(s)
        m == search_iso(t)
    IN  m # 0 /\ fromisoformat(SubSeq(t, m, m + 9)).raised

C8_Original ==
    /\ d_pc # "raised"
    /\ (d_pc = "returned" /\ LeftmostIsoInvalid(date_text))
          => d_out = try_parse_swedish(date_text).val

\* C8, amended: normalize_date never raises, and when the leftmost
\* YYYY-MM-DD substring is no calendar date, the result is the leftmost
\* YYYY-MM-DD substring that is followed by THH:MM when there is one and
\* it is a calendar date, and otherwise what the Swedish strategy gives.
LeftmostTimedIso(s) ==
    LET t == strip(s)
        m == search_iso_t(t)
    IN  IF m = 0 THEN None
        ELSE LET y == int_of(SubSeq(t, m, m + 3))
                 mo == int_of(SubSeq(t, m + 5, m + 6))
                 d == int_of(SubSeq(t, m + 8, m + 9))
             IN  IF y >= 1 /\ mo \in 1..12 /\ d >= 1 /\ d <= DaysInMonth(y, mo)
                 THEN SubSeq(t, m, m + 9)
                 ELSE None

C8_Amended ==
    /\ d_pc # "raised"
    /\ (d_pc = "returned" /\ LeftmostIsoInvalid(date_text))
          => d_out = IF LeftmostTimedIso(date_text) # None
                     THEN LeftmostTimedIso(date_text)
                     ELSE try_parse_swedish(date_text).val

C8_Witness ==
    /\ d_pc = "returned"
    /\ LeftmostIsoInvalid(date_text)
    /\ d_out # None
    /\ d_out = LeftmostTimedIso(date_text)
    /\ d_out # try_parse_swedish(date_text).val

\* C9: the container of an anchor is its nearest ancestor within three
\* levels whose tag is article, li or div, and the anchor itself when no
\* ancestor within three levels has such a tag.
ClaimedContainer(a) ==
    LET near == { l \in 1..3 : l <= Len(a.chain) /\ a.chain[l].name \in ContainerTags }
    IN  IF near = {} THEN 0
        ELSE CHOOSE l \in near : \A k \in near : l <= k

C9_ContainerNearestOrAnchor ==
    ex_pc = "returned" =>
        \A k \in 1..Len(ex_out.containers) :
            ex_out.containers[k][2] = ClaimedContainer(Scanned[ex_out.containers[k][1]])

\* C10: the metadata of every entry of the index has exactly the keys
\* title, date and url, and every Search Result has empty content, also
\* for an article whose body is not empty.
C10_NoContentInMetadata ==
    /\ \A e \in index : DOMAIN e.metadata = {"title", "date", "url"}
    /\ \A i \in 1..Len(search_out.results) : search_out.results[i].content = <<>>

C10_Witness ==
    /\ search_out.status = 200
    /\ Len(search_out.results) >= 1
    /\ \E e \in index :
          /\ e.metadata.url = search_out.results[1].url
          /\ e.values # embedding(e.metadata.title \o <<"\n", "\n">>)
          /\ search_out.results[1].content = <<>>

==============================================================================
